---- MODULE Spec2Model ----
(***************************************************************************)
(* Model of script.py, the Streamlit dashboard of the "Urgent Medical      *)
(* Device" audit case study: load_data reads every file of data/ into a    *)
(* keyed collection of tables, then the script derives the 2017 sales and  *)
(* the unpaid invoices and runs the reconciliation, the visualisation, the *)
(* three-way matching, the credit limit check, the receivables aging and   *)
(* the Benford call, top to bottom.  An uncaught exception stops the run;  *)
(* a user interaction re-runs the script with load_data's result cached.   *)
(*                                                                         *)
(* Cells.  A cell is an integer.  Timestamps count half days since         *)
(* 2017-01-01 00:00 (so 2017 is 0..729 and 2017-12-31 00:00 is 728).       *)
(* Money counts half currency units (5 is 2.5), so that astype(int)        *)
(* truncates something.  NaN is the missing value (NaN and NaT alike).     *)
(***************************************************************************)
EXTENDS Integers, Sequences, FiniteSets, TLC

\* ----------------------------------------------------------------- bounds
MaxInvoices == 2
MaxExtraFiles == 1

\* -------------------------------------------------------------- constants
NaN == -9999
Unparseable == -8888
FiscalYear == 2017
PeriodEnd == 728
AgeLimit == 90

None == <<>>
Some(x) == <<x>>

\* ------------------------------------------------------------ cell helpers
IsNa(x) == x = NaN

\* Series.dt.year: NaT has no year (NaN).
Year(ts) ==
  IF IsNa(ts) THEN NaN
  ELSE IF ts < 0 THEN FiscalYear - 1
  ELSE IF ts < 730 THEN FiscalYear
  ELSE FiscalYear + 1

\* Series.dt.quarter of a 2017 timestamp (quarters start on days 0, 90, 181, 273).
Quarter(ts) ==
  IF ts < 180 THEN 1 ELSE IF ts < 362 THEN 2 ELSE IF ts < 546 THEN 3 ELSE 4

\* Variant: errors="ignore" leaves the text in place.
ToDatetimeCoerce_Ignore(v) == v

\* pd.to_datetime(..., errors="coerce"): a value that is no date becomes NaT.
ToDatetimeCoerce(v) == IF v = Unparseable THEN NaN ELSE v

\* astype(int) of a float that is not NaN: truncation toward zero.
TruncInt(h) == IF h >= 0 THEN h \div 2 ELSE -((-h) \div 2)

\* Series.sum(): NaN cells are skipped, the empty sum is 0.
RECURSIVE SumSkipNa(_)
SumSkipNa(s) ==
  IF s = <<>> THEN 0
  ELSE (IF IsNa(Head(s)) THEN 0 ELSE Head(s)) + SumSkipNa(Tail(s))

Column(t, c) == [i \in 1..Len(t) |-> t[i][c]]

RECURSIVE SortedSeq(_)
SortedSeq(S) ==
  IF S = {} THEN <<>>
  ELSE LET m == CHOOSE x \in S : \A y \in S : x <= y
       IN <<m>> \o SortedSeq(S \ {m})

Put(f, k, v) == [x \in (DOMAIN f) \cup {k} |-> IF x = k THEN v ELSE f[x]]

\* --------------------------------------------------------------- load_data
\* file.name.replace(".xlsx", ""): every occurrence of ".xlsx" is removed.
\* A file name is the sequence of its stem and its dot-suffixes.
TableName(name) == SelectSeq(name, LAMBDA t : t # ".xlsx")

K_invoices == <<"customer_invoices">>
K_orders == <<"sales_orders">>
K_shipments == <<"shipments">>
K_customers == <<"customer_master">>
K_territory == <<"sales_territory">>

\* The loop of load_data over os.scandir("data"), in the listing's order.
RECURSIVE ReadAll(_, _)
ReadAll(entries, acc) ==
  IF entries = <<>> THEN acc
  ELSE ReadAll(Tail(entries),
               Put(acc, TableName(Head(entries).name), Head(entries).table))

\* df["PaidDate"] = pd.to_datetime(df["PaidDate"], errors="coerce")
CleanInvoices(t) ==
  [i \in 1..Len(t) |-> [t[i] EXCEPT !.PaidDate = ToDatetimeCoerce(@)]]

\* What load_data does on a directory listing: the exception it raises, or db.
LoadResult(listing) ==
  IF \E i \in 1..Len(listing) : ~listing[i].ok
    THEN [err |-> "read_excel", db |-> <<>>]
  ELSE LET raw == ReadAll(listing, <<>>)
       IN IF K_invoices \notin DOMAIN raw
            THEN [err |-> "KeyError", db |-> <<>>]
          ELSE [err |-> "none",
                db |-> [raw EXCEPT ![K_invoices] = CleanInvoices(@)]]

\* ------------------------------------------------- derived frames (42-45)
\* invoices = db["customer_invoices"].query("InvoiceDate.dt.year == 2017")
InFiscalYear(r) == Year(r.InvoiceDate) = FiscalYear

\* invoices[["InvoiceDate", "PaidDate", "SalesOrderID"]]
Invoices(ci) ==
  LET kept == SelectSeq(ci, InFiscalYear)
  IN [i \in 1..Len(kept) |->
        [InvoiceDate |-> kept[i].InvoiceDate, PaidDate |-> kept[i].PaidDate,
         SalesOrderID |-> kept[i].SalesOrderID]]

\* A left join's miss: every column of the right table is NaN.
NoOrder ==
  [InvoiceID |-> NaN, CustID |-> NaN, TerritoryID |-> NaN, SubTotal |-> NaN,
   TotalDue |-> NaN, ShipID |-> NaN]

\* invoices.join(db["sales_orders"], on="SalesOrderID").set_index("SalesOrderID")
JoinOrder(r, so) ==
  LET o == IF r.SalesOrderID \in DOMAIN so THEN so[r.SalesOrderID] ELSE NoOrder
  IN [SalesOrderID |-> r.SalesOrderID, InvoiceDate |-> r.InvoiceDate,
      PaidDate |-> r.PaidDate, InvoiceID |-> o.InvoiceID, CustID |-> o.CustID,
      TerritoryID |-> o.TerritoryID, SubTotal |-> o.SubTotal,
      TotalDue |-> o.TotalDue, ShipID |-> o.ShipID]

Sales(d) ==
  LET inv == Invoices(d[K_invoices])
  IN [i \in 1..Len(inv) |-> JoinOrder(inv[i], d[K_orders])]

\* unpaid = sales.query("PaidDate.dt.year != 2017"): NaN != 2017 is True.
IsUnpaid(r) == Year(r.PaidDate) # FiscalYear

Unpaid(s) == SelectSeq(s, IsUnpaid)

\* ------------------------------------------------- reconciliation (47-51)
Revenue(s) == SumSkipNa(Column(s, "SubTotal"))

\* Variant: the receivable summed over SubTotal.
Receivable_SubTotal(u) == SumSkipNa(Column(u, "SubTotal"))

Receivable(u) == SumSkipNa(Column(u, "TotalDue"))

Reconciliation(s, u) ==
  [n_sales |-> Len(s), revenue |-> Revenue(s),
   n_unpaid |-> Len(u), receivable |-> Receivable(u)]

\* A Finding as the script reports it: the count of the f-string, the frame,
\* and whether the frame is written to the page (only when it has rows).
Finding(t) == [count |-> Len(t), table |-> t, shown |-> Len(t) > 0]

\* ------------------------------------------------ three-way matching (90-95)
\* sales[[...]].join(db["shipments"]["ShipDate"], on="ShipID")
MatchRow(r, sh) ==
  [SalesOrderID |-> r.SalesOrderID, InvoiceID |-> r.InvoiceID,
   CustID |-> r.CustID, TerritoryID |-> r.TerritoryID,
   SubTotal |-> r.SubTotal, ShipID |-> r.ShipID,
   ShipDate |-> IF r.ShipID \in DOMAIN sh THEN sh[r.ShipID].ShipDate ELSE NaN]

\* Variant: the shipment join left out.
IsIncomplete_NoShipDate(m) ==
  IsNa(m.InvoiceID) \/ IsNa(m.CustID) \/ IsNa(m.TerritoryID)
    \/ IsNa(m.SubTotal) \/ IsNa(m.ShipID)

\* Variant: notna() in place of isna().
IsIncomplete_NotNa(m) ==
  ~IsNa(m.InvoiceID) \/ ~IsNa(m.CustID) \/ ~IsNa(m.TerritoryID)
    \/ ~IsNa(m.SubTotal) \/ ~IsNa(m.ShipID) \/ ~IsNa(m.ShipDate)

\* matching.isna().any(axis=1): over the six columns (SalesOrderID is the index)
IsIncomplete(m) ==
  IsNa(m.InvoiceID) \/ IsNa(m.CustID) \/ IsNa(m.TerritoryID)
    \/ IsNa(m.SubTotal) \/ IsNa(m.ShipID) \/ IsNa(m.ShipDate)

Matching(s, sh) ==
  SelectSeq([i \in 1..Len(s) |-> MatchRow(s[i], sh)], IsIncomplete)

\* ------------------------------------------------ credit limit (104-109)
\* unpaid[["CustID","TotalDue"]].groupby("CustID").sum(): NaN keys are dropped,
\* groups come sorted by key.
Customers(u) == {u[i].CustID : i \in 1..Len(u)} \ {NaN}

GroupSum(u, c) ==
  SumSkipNa(Column(SelectSeq(u, LAMBDA r : r.CustID = c), "TotalDue"))

\* .join(db["customer_master"][["CredLimit", "TerritoryID"]], on="CustID")
CheckRow(u, cm, c) ==
  [CustID |-> c, TotalDue |-> GroupSum(u, c),
   CredLimit |-> IF c \in DOMAIN cm THEN cm[c].CredLimit ELSE NaN,
   TerritoryID |-> IF c \in DOMAIN cm THEN cm[c].TerritoryID ELSE NaN]

Grouped(u, cm) ==
  LET keys == SortedSeq(Customers(u))
  IN [i \in 1..Len(keys) |-> CheckRow(u, cm, keys[i])]

\* Variant: the cast also fails on a frame without rows.
CastRaises_OnEmpty(g) ==
  \/ g = <<>>
  \/ \E i \in 1..Len(g) :
       IsNa(g[i].TotalDue) \/ IsNa(g[i].CredLimit) \/ IsNa(g[i].TerritoryID)

\* .astype(int) raises on a NaN cell (IntCastingNaNError).
CastRaises(g) ==
  \E i \in 1..Len(g) :
    IsNa(g[i].TotalDue) \/ IsNa(g[i].CredLimit) \/ IsNa(g[i].TerritoryID)

\* .astype(int): the money columns are truncated; TerritoryID is whole already.
AsInt(g) ==
  [i \in 1..Len(g) |->
     [g[i] EXCEPT !.TotalDue = TruncInt(@), !.CredLimit = TruncInt(@)]]

\* Variant: >= in place of >.
ExceedsLimit_Geq(row) == row.TotalDue >= row.CredLimit

\* checking.query("TotalDue > CredLimit")
ExceedsLimit(row) == row.TotalDue > row.CredLimit

Checking(u, cm) == SelectSeq(AsInt(Grouped(u, cm)), ExceedsLimit)

\* ------------------------------------------------ receivables aging (113-118)
\* (pd.to_datetime("20171231") - aging["InvoiceDate"]).dt.days
AgeDays(ts) == (PeriodEnd - ts) \div 2

AgingRow(r) ==
  [SalesOrderID |-> r.SalesOrderID, InvoiceID |-> r.InvoiceID,
   InvoiceDate |-> r.InvoiceDate, TotalDue |-> r.TotalDue,
   age_days |-> AgeDays(r.InvoiceDate)]

\* Variant: >= in place of >.
IsOverAge_Geq(a) == a.age_days >= AgeLimit

\* aging.query("age_days > 90")
IsOverAge(a) == a.age_days > AgeLimit

Aging(u) == SelectSeq([i \in 1..Len(u) |-> AgingRow(u[i])], IsOverAge)

\* ------------------------------------------------ visualisation data (58-81)
\* load_viz up to the pivot table; drawing the chart is matplotlib's and is
\* not modelled.  Territory names are coded by their alphabetical rank.
\* df = sales[[...]].join(db["sales_territory"]["TerritoryName"], on="TerritoryID")
\* df["QTR"] = df["InvoiceDate"].dt.quarter
VizFrame(s, terr) ==
  [i \in 1..Len(s) |->
     [QTR |-> Quarter(s[i].InvoiceDate), SubTotal |-> s[i].SubTotal,
      TerritoryName |-> IF s[i].TerritoryID \in DOMAIN terr
                          THEN terr[s[i].TerritoryID].TerritoryName ELSE NaN]]

\* pd.pivot_table(df, index="QTR", values="SubTotal", aggfunc=np.sum)
PivotByQuarter(df) ==
  LET qs == {df[i].QTR : i \in 1..Len(df)}
  IN [q \in qs |-> SumSkipNa(Column(SelectSeq(df, LAMBDA r : r.QTR = q), "SubTotal"))]

\* pd.pivot_table(df, index="QTR", columns="TerritoryName", ...): NaN keys dropped
PivotByTerritory(df) ==
  LET named == SelectSeq(df, LAMBDA r : ~IsNa(r.TerritoryName))
      ks == {<<named[i].QTR, named[i].TerritoryName>> : i \in 1..Len(named)}
  IN [k \in ks |->
        SumSkipNa(Column(SelectSeq(named,
          LAMBDA r : r.QTR = k[1] /\ r.TerritoryName = k[2]), "SubTotal"))]

\* goals.sort_values("TerritoryName").reset_index(drop=True); the i-th goal is
\* drawn on the i-th subplot.
GoalLines(terr) ==
  LET names == SortedSeq({terr[t].TerritoryName : t \in DOMAIN terr})
      goal(n) == (CHOOSE t \in DOMAIN terr : terr[t].TerritoryName = n)
  IN [i \in 1..Len(names) |-> [axis |-> i, y |-> terr[goal(names[i])].SalesGoalQTR]]

LoadViz(sel, s, terr) ==
  LET df == VizFrame(s, terr)
  IN [selected |-> sel,
      pivot |-> IF sel = 0 THEN PivotByQuarter(df) ELSE PivotByTerritory(df),
      goals |-> IF sel = 2 THEN GoalLines(terr) ELSE <<>>]

\* Variant: df is sales itself, so the QTR column lands in sales.
SalesAfterLoadViz_InPlace(s) ==
  [i \in 1..Len(s) |->
     [f \in (DOMAIN s[i]) \cup {"QTR"} |->
        IF f = "QTR" THEN Quarter(s[i].InvoiceDate) ELSE s[i][f]]]

\* df = sales[[...]] is a new frame: the QTR column is written to the copy and
\* sales keeps its columns.
SalesAfterLoadViz(s) == s

\* aging = unpaid.loc[:, [...]] is a new frame too: unpaid is not filtered.
UnpaidAfterAging(u) == u

\* ------------------------------------------------ Benford call (120-121)
\* benford_run(sales["SubTotal"]): the series handed to bf.first_digits; the
\* digit test itself is the library's.
BenfordInput(s) == [data |-> Column(s, "SubTotal"), digs |-> 1, decimals |-> 8]

\* =================================================================== state
VARIABLES
  fs,            \* os.scandir("data"): the entries, in listing order
  cache,         \* st.cache's memo of load_data (<<>>: nothing cached)
  pc,            \* the statement the run is at
  err,           \* the exception that stopped the run, or "none"
  db,            \* load_data's result (<<>>: not loaded)
  sales, unpaid, \* the derived frames of lines 42-45
  recon,         \* the numbers of lines 48-51
  selected_viz,  \* the selectbox of line 86, as viz.index gives it
  fig,           \* load_viz's result
  matching, checking, aging,   \* the three Findings
  bf_res         \* line 121

vars == <<fs, cache, pc, err, db, sales, unpaid, recon, selected_viz, fig,
          matching, checking, aging, bf_res>>

scriptVars == <<sales, unpaid, recon, fig, matching, checking, aging, bf_res>>

\* ------------------------------------------------------------------ actions
Raise(e) == pc' = "error" /\ err' = e

\* Line 35, db = load_data(): st.cache returns the memo when there is one.
LoadData ==
  /\ pc = "load"
  /\ LET res == IF cache # <<>> THEN [err |-> "none", db |-> cache]
                ELSE LoadResult(fs)
     IN /\ db' = res.db
        /\ cache' = res.db
        /\ err' = res.err
        /\ pc' = IF res.err = "none" THEN "reconcile" ELSE "error"
  /\ UNCHANGED <<fs, selected_viz, scriptVars>>

\* Lines 42-51.
Reconcile ==
  /\ pc = "reconcile"
  /\ IF K_orders \notin DOMAIN db
       THEN Raise("KeyError") /\ UNCHANGED <<sales, unpaid, recon>>
     ELSE /\ sales' = Some(Sales(db))
          /\ unpaid' = Some(Unpaid(Sales(db)))
          /\ recon' = Some(Reconciliation(Sales(db), Unpaid(Sales(db))))
          /\ pc' = "viz"
          /\ err' = err
  /\ UNCHANGED <<fs, cache, db, selected_viz, fig, matching, checking, aging, bf_res>>

\* Lines 86-87, st.write(load_viz(viz.index(selected_viz))).
Visualise ==
  /\ pc = "viz"
  /\ IF K_territory \notin DOMAIN db
       THEN Raise("KeyError") /\ UNCHANGED <<fig, sales>>
     ELSE /\ fig' = Some(LoadViz(selected_viz, sales[1], db[K_territory]))
          /\ sales' = Some(SalesAfterLoadViz(sales[1]))
          /\ pc' = "matching"
          /\ err' = err
  /\ UNCHANGED <<fs, cache, db, unpaid, recon, selected_viz, matching, checking,
                 aging, bf_res>>

\* Lines 90-95.
ThreeWayMatching ==
  /\ pc = "matching"
  /\ IF K_shipments \notin DOMAIN db
       THEN Raise("KeyError") /\ UNCHANGED matching
     ELSE /\ matching' = Some(Finding(Matching(sales[1], db[K_shipments])))
          /\ pc' = "checking"
          /\ err' = err
  /\ UNCHANGED <<fs, cache, db, sales, unpaid, recon, selected_viz, fig, checking,
                 aging, bf_res>>

\* Lines 104-109.
CreditLimitChecking ==
  /\ pc = "checking"
  /\ IF K_customers \notin DOMAIN db
       THEN Raise("KeyError") /\ UNCHANGED checking
     ELSE IF CastRaises(Grouped(unpaid[1], db[K_customers]))
       THEN Raise("IntCastingNaNError") /\ UNCHANGED checking
     ELSE /\ checking' = Some(Finding(Checking(unpaid[1], db[K_customers])))
          /\ pc' = "aging"
          /\ err' = err
  /\ UNCHANGED <<fs, cache, db, sales, unpaid, recon, selected_viz, fig, matching,
                 aging, bf_res>>

\* Lines 113-118.
ReceivablesAging ==
  /\ pc = "aging"
  /\ aging' = Some(Finding(Aging(unpaid[1])))
  /\ unpaid' = Some(UnpaidAfterAging(unpaid[1]))
  /\ pc' = "benford"
  /\ UNCHANGED <<fs, cache, err, db, sales, recon, selected_viz, fig, matching,
                 checking, bf_res>>

\* Lines 121-125.
Benford ==
  /\ pc = "benford"
  /\ bf_res' = Some(BenfordInput(sales[1]))
  /\ pc' = "done"
  /\ UNCHANGED <<fs, cache, err, db, sales, unpaid, recon, selected_viz, fig,
                 matching, checking, aging>>

\* A widget interaction (the selectbox of line 86, or the raw-data widgets of
\* lines 38-40, which only display a table): Streamlit runs the script again
\* from the top, with the selectbox at the user's choice; the script's names
\* are bound afresh.
Rerun ==
  /\ pc \in {"done", "error"}
  /\ \E sel \in 0..2 : selected_viz' = sel
  /\ pc' = "load"
  /\ err' = "none"
  /\ db' = <<>>
  /\ sales' = None /\ unpaid' = None /\ recon' = None /\ fig' = None
  /\ matching' = None /\ checking' = None /\ aging' = None /\ bf_res' = None
  /\ UNCHANGED <<fs, cache>>

Next ==
  \/ LoadData
  \/ Reconcile
  \/ Visualise
  \/ ThreeWayMatching
  \/ CreditLimitChecking
  \/ ReceivablesAging
  \/ Benford
  \/ Rerun

\* ============================================================ the data sets
BSeq(S, n) == UNION {[1..k -> S] : k \in 0..n}

\* customer_invoices rows as the workbook holds them (PaidDate not yet cleaned).
\* InvoiceDate: 546 is 2017-10-01 00:00 (91 days before period end), 547 is
\* 2017-10-01 12:00 (90.5 days), 548 is 2017-10-02 00:00 (exactly 90 days),
\* -1 is in 2016, 730 is 2018-01-01, NaN an empty cell.  PaidDate: a text
\* that is no date, 600 (paid in 2017) or 740 (paid in 2018).  SalesOrderID 3
\* has no sales order.
InvoiceRows ==
  {[InvoiceDate |-> d, PaidDate |-> Unparseable, SalesOrderID |-> 1] :
      d \in {NaN, -1, 546, 547, 548, 730}}
  \cup {[InvoiceDate |-> 546, PaidDate |-> p, SalesOrderID |-> 1] :
      p \in {600, 740}}
  \cup {[InvoiceDate |-> 546, PaidDate |-> p, SalesOrderID |-> 2] :
      p \in {Unparseable, 600}}
  \cup {[InvoiceDate |-> 546, PaidDate |-> Unparseable, SalesOrderID |-> 3]}

InvoiceTables == BSeq(InvoiceRows, MaxInvoices)

\* sales_orders: order 1 is complete; order 2 varies in its customer (customer
\* 3 has no customer_master row) and in what it lacks (territory 2 and
\* shipment 2 do not exist); no order 3 exists.
Order1 ==
  [InvoiceID |-> 11, CustID |-> 1, TerritoryID |-> 1, SubTotal |-> 4,
   TotalDue |-> 5, ShipID |-> 1]

Order2Rows ==
  {[InvoiceID |-> 12, CustID |-> x[1], TerritoryID |-> x[2], SubTotal |-> x[3],
    TotalDue |-> 4, ShipID |-> x[4]] :
      x \in {<<1, 1, 3, 1>>, <<2, 1, 3, 1>>, <<3, 1, 3, 1>>,
             <<1, 2, 3, 2>>, <<1, 1, NaN, 1>>}}

OrderTables == {[o \in {1, 2} |-> IF o = 1 THEN Order1 ELSE r] : r \in Order2Rows}

ShipmentTable == [h \in {1} |-> [ShipDate |-> 550]]

\* customer_master: customer 1's limit is 2.0 or 3.0, customer 2's is 1.0.
CustomerTables ==
  {[c \in {1, 2} |->
      IF c = 1 THEN [CredLimit |-> l, TerritoryID |-> 1]
      ELSE [CredLimit |-> 2, TerritoryID |-> 1]] : l \in {4, 6}}

\* sales_territory: territory 3 has no sale.
TerritoryTable ==
  [t \in {1, 3} |->
     IF t = 1 THEN [TerritoryName |-> 2, SalesGoalQTR |-> 10]
     ELSE [TerritoryName |-> 1, SalesGoalQTR |-> 8]]

File(stem, suffixes, table) ==
  [name |-> <<stem>> \o suffixes, ok |-> TRUE, table |-> table]

\* data/ as the repository ships it: one .xlsx workbook per table.
Workbooks(ci, so, cm) ==
  << File("customer_invoices", <<".xlsx">>, ci),
     File("sales_orders", <<".xlsx">>, so),
     File("shipments", <<".xlsx">>, ShipmentTable),
     File("customer_master", <<".xlsx">>, cm),
     File("sales_territory", <<".xlsx">>, TerritoryTable) >>

\* Other entries a data directory can hold: workbooks saved with a doubled
\* extension (an empty shipments table, the territory table), Excel's lock
\* file and a text file (read_excel raises on the last two).
ExtraFiles ==
  { File("shipments", <<".xlsx", ".xlsx">>, <<>>),
    File("sales_territory", <<".xlsx", ".xlsx">>, TerritoryTable),
    [name |-> <<"~$sales_orders", ".xlsx">>, ok |-> FALSE, table |-> <<>>],
    [name |-> <<"README", ".txt">>, ok |-> FALSE, table |-> <<>>] }

Without(s, i) == [j \in 1..(Len(s) - 1) |-> IF j < i THEN s[j] ELSE s[j + 1]]

\* The listings of a directory that holds the workbooks, or all but one of
\* them, and at most MaxExtraFiles other entries before or after them.
Listings(core) ==
  LET cores == {core} \cup {Without(core, i) : i \in 1..Len(core)}
      extras == {e \in BSeq(ExtraFiles, MaxExtraFiles) :
                   \A i, j \in 1..Len(e) : i # j => e[i] # e[j]}
  IN {c \o e : c \in cores, e \in extras} \cup {e \o c : c \in cores, e \in extras}

DefaultInvoices ==
  << [InvoiceDate |-> 546, PaidDate |-> Unparseable, SalesOrderID |-> 1],
     [InvoiceDate |-> 546, PaidDate |-> 600, SalesOrderID |-> 2] >>

DefaultOrders == CHOOSE t \in OrderTables : t[2].CustID = 3

DefaultCustomers == CHOOSE t \in CustomerTables : t[1].CredLimit = 4

Init ==
  /\ \/ \E ci \in InvoiceTables, so \in OrderTables, cm \in CustomerTables :
          fs = Workbooks(ci, so, cm)
     \/ fs \in Listings(Workbooks(DefaultInvoices, DefaultOrders, DefaultCustomers))
  /\ cache = <<>>
  /\ pc = "load"
  /\ err = "none"
  /\ db = <<>>
  /\ selected_viz = 0
  /\ sales = None /\ unpaid = None /\ recon = None /\ fig = None
  /\ matching = None /\ checking = None /\ aging = None /\ bf_res = None

Spec == Init /\ [][Next]_vars

\* ================================================================== claims
\* The claims are stated over the loaded Dataset and the invoices' own cells.
AllTables == {K_invoices, K_orders, K_shipments, K_customers, K_territory}

RECURSIVE SumOfCells(_, _)
SumOfCells(f, S) ==
  IF S = {} THEN 0
  ELSE LET i == CHOOSE x \in S : TRUE IN f[i] + SumOfCells(f, S \ {i})

\* The invoices of the loaded Dataset that are dated in 2017.
Dated2017 ==
  {i \in 1..Len(db[K_invoices]) :
     LET d == db[K_invoices][i].InvoiceDate IN ~IsNa(d) /\ 0 <= d /\ d < 730}

HasOrder(i) == db[K_invoices][i].SalesOrderID \in DOMAIN db[K_orders]

OrderOf(i) == db[K_orders][db[K_invoices][i].SalesOrderID]

\* Not paid in 2017: no payment date, or one outside the year.
NotPaidInYear(i) ==
  LET p == db[K_invoices][i].PaidDate IN IsNa(p) \/ p < 0 \/ p >= 730

Present(x) == ~IsNa(x)

\* The order has every field and its shipment exists with its date.
FullySupported(i) ==
  /\ HasOrder(i)
  /\ \A f \in DOMAIN OrderOf(i) : Present(OrderOf(i)[f])
  /\ OrderOf(i).ShipID \in DOMAIN db[K_shipments]
  /\ Present(db[K_shipments][OrderOf(i).ShipID].ShipDate)

\* Rows of one sales order are equal in every matching column, so an invoice
\* is in the flagged table when a flagged row carries its SalesOrderID.
InMatching(i) ==
  \E k \in 1..Len(matching[1].table) :
    matching[1].table[k].SalesOrderID = db[K_invoices][i].SalesOrderID

\* C1: in the three-way matching, every 2017 invoice without a sales order is
\* in the flagged table, no 2017 invoice with a complete order and shipment is,
\* and the reported count is the number of flagged invoices.
C1_MatchingFlagsUnsupported ==
  matching # None =>
    /\ \A i \in Dated2017 : ~HasOrder(i) => InMatching(i)
    /\ \A i \in Dated2017 : FullySupported(i) => ~InMatching(i)
    /\ matching[1].count = Cardinality({i \in Dated2017 : InMatching(i)})
    /\ matching[1].count = Len(matching[1].table)

C1_Witness ==
  /\ matching # None
  /\ \E i, j \in Dated2017 :
       ~HasOrder(i) /\ InMatching(i) /\ FullySupported(j) /\ ~InMatching(j)

\* The customers that have an unpaid 2017 invoice, and their unpaid total in
\* half units.
UnpaidOf(c) ==
  {i \in Dated2017 : NotPaidInYear(i) /\ HasOrder(i) /\ OrderOf(i).CustID = c}

UnpaidTotal(c) ==
  SumOfCells([i \in UnpaidOf(c) |->
                IF IsNa(OrderOf(i).TotalDue) THEN 0 ELSE OrderOf(i).TotalDue],
             UnpaidOf(c))

UnpaidCustomers ==
  {OrderOf(i).CustID : i \in {j \in Dated2017 : NotPaidInYear(j) /\ HasOrder(j)}}
    \ {NaN}

\* Whole units of a non-negative amount in half units.
WholeUnits(h) == CHOOSE n \in 0..h : 2 * n <= h /\ h < 2 * n + 2

IsFlaggedCustomer(c) ==
  \E k \in 1..Len(checking[1].table) : checking[1].table[k].CustID = c

\* C2: the credit limit check flags exactly the customers whose unpaid total,
\* cut to whole units, is strictly above their credit limit.
C2_FlaggedIffOverLimit ==
  checking # None =>
    /\ \A c \in UnpaidCustomers :
         IsFlaggedCustomer(c)
           <=> 2 * WholeUnits(UnpaidTotal(c)) > db[K_customers][c].CredLimit
    /\ \A k \in 1..Len(checking[1].table) :
         checking[1].table[k].CustID \in UnpaidCustomers
    /\ checking[1].count = Len(checking[1].table)

\* One customer owes 2.5 against a limit of 2 and is not flagged; another is
\* one whole unit above the limit and is flagged.
C2_Witness ==
  /\ checking # None
  /\ \E c, e \in UnpaidCustomers :
       /\ UnpaidTotal(c) > db[K_customers][c].CredLimit
       /\ 2 * WholeUnits(UnpaidTotal(c)) = db[K_customers][c].CredLimit
       /\ ~IsFlaggedCustomer(c)
       /\ 2 * WholeUnits(UnpaidTotal(e)) = db[K_customers][e].CredLimit + 2
       /\ IsFlaggedCustomer(e)

\* The invoice is more than 90 whole days old at 2017-12-31 00:00.
Overdue(i) ==
  PeriodEnd - db[K_invoices][i].InvoiceDate >= 2 * (AgeLimit + 1)

AgedInvoices == {i \in Dated2017 : NotPaidInYear(i) /\ Overdue(i)}

\* C3: the aging check flags exactly the unpaid invoices that are more than 90
\* whole days old at period end; one of exactly 90 days is not flagged, and no
\* invoice paid in 2017 is.
C3_FlaggedIffOver90 ==
  aging # None =>
    /\ aging[1].count = Cardinality(AgedInvoices)
    /\ aging[1].count = Len(aging[1].table)
    /\ \A k \in 1..Len(aging[1].table) :
         LET a == aging[1].table[k]
         IN /\ a.age_days > AgeLimit
            /\ 2 * a.age_days <= PeriodEnd - a.InvoiceDate
            /\ PeriodEnd - a.InvoiceDate < 2 * a.age_days + 2
            /\ \E i \in AgedInvoices :
                 /\ db[K_invoices][i].InvoiceDate = a.InvoiceDate
                 /\ db[K_invoices][i].SalesOrderID = a.SalesOrderID

\* An unpaid invoice dated exactly 90 days before period end beside one
\* dated 91 days before: only the second is reported.
C3_Witness ==
  /\ aging # None
  /\ aging[1].count = 1
  /\ \E i, j \in Dated2017 :
       /\ NotPaidInYear(i) /\ db[K_invoices][i].InvoiceDate = PeriodEnd - 2 * 90
       /\ NotPaidInYear(j) /\ db[K_invoices][j].InvoiceDate = PeriodEnd - 2 * 91

Amount(i, col) ==
  IF HasOrder(i) /\ Present(OrderOf(i)[col]) THEN OrderOf(i)[col] ELSE 0

\* C4: revenue is the sum of SubTotal over the invoices dated in 2017,
\* receivable the sum of TotalDue over those of them not paid in 2017, and the
\* two counts are the sizes of the two sets.
C4_Reconciliation ==
  recon # None =>
    LET open == {i \in Dated2017 : NotPaidInYear(i)}
    IN /\ recon[1].n_sales = Cardinality(Dated2017)
       /\ recon[1].revenue =
            SumOfCells([i \in Dated2017 |-> Amount(i, "SubTotal")], Dated2017)
       /\ recon[1].n_unpaid = Cardinality(open)
       /\ recon[1].receivable =
            SumOfCells([i \in open |-> Amount(i, "TotalDue")], open)

\* Two invoices of the year, one paid in the year and one not.
C4_Witness ==
  /\ recon # None
  /\ recon[1].n_sales = 2
  /\ recon[1].n_unpaid = 1
  /\ recon[1].receivable > 0
  /\ recon[1].revenue > recon[1].receivable

\* C5: with every table loaded, a foreign key without a target row never ends
\* the run in an exception: each check completes and reports its Finding.
C5_JoinMissNeverRaises ==
  (db # <<>> /\ AllTables \subseteq DOMAIN db) => pc # "error"

\* Every cell of the joined invoice, order and shipment row of a sales row.
JoinedCells(r) ==
  {r[f] : f \in DOMAIN r}
    \cup {IF r.ShipID \in DOMAIN db[K_shipments]
            THEN db[K_shipments][r.ShipID].ShipDate ELSE NaN}

\* The six columns the matching frame keeps for a sales row.
RequiredCells(r) ==
  {r.InvoiceID, r.CustID, r.TerritoryID, r.SubTotal, r.ShipID,
   IF r.ShipID \in DOMAIN db[K_shipments]
     THEN db[K_shipments][r.ShipID].ShipDate ELSE NaN}

IsFlaggedRow(r) ==
  \E k \in 1..Len(matching[1].table) :
    matching[1].table[k].SalesOrderID = r.SalesOrderID

\* C6 as claimed: a sales row with any missing cell in its joined row, a
\* PaidDate coerced to missing included, is in the flagged table.
C6_AnyMissingCellFlagged ==
  matching # None =>
    \A k \in 1..Len(sales[1]) :
      NaN \in JoinedCells(sales[1][k]) => IsFlaggedRow(sales[1][k])

\* C6 amended: a sales row is in the flagged table exactly when one of the six
\* matching columns (InvoiceID, CustID, TerritoryID, SubTotal, ShipID,
\* ShipDate) is missing; a missing PaidDate alone does not flag it.
C6_RequiredCellFlagged ==
  matching # None =>
    /\ \A k \in 1..Len(sales[1]) :
         IsFlaggedRow(sales[1][k]) <=> NaN \in RequiredCells(sales[1][k])
    /\ \A k \in 1..Len(matching[1].table) :
         \E j \in 1..Len(sales[1]) :
           sales[1][j].SalesOrderID = matching[1].table[k].SalesOrderID

\* An invoice whose PaidDate was coerced to missing, with its order and
\* shipment complete, is not flagged; another one lacking only its shipment is.
C6_Witness ==
  /\ matching # None
  /\ \E j, k \in 1..Len(sales[1]) :
       /\ IsNa(sales[1][j].PaidDate)
       /\ ~(NaN \in RequiredCells(sales[1][j]))
       /\ ~IsFlaggedRow(sales[1][j])
       /\ Present(sales[1][k].ShipID)
       /\ ~(sales[1][k].ShipID \in DOMAIN db[K_shipments])
       /\ IsFlaggedRow(sales[1][k])

\* The invoice workbook as read, before the cleaning of PaidDate.
RawInvoices == ReadAll(fs, <<>>)[K_invoices]

\* C7 as claimed: a record with a missing date is left out by both year
\* filters, so no row of unpaid has a missing PaidDate.
C7_MissingDateExcluded ==
  unpaid # None =>
    /\ \A k \in 1..Len(sales[1]) : Present(sales[1][k].InvoiceDate)
    /\ \A k \in 1..Len(unpaid[1]) : Present(unpaid[1][k].PaidDate)

\* C7 amended: an unparseable PaidDate is loaded as a missing value without an
\* exception; the InvoiceDate year == 2017 filter leaves out the records with
\* a missing InvoiceDate, and the PaidDate year != 2017 filter keeps every
\* sales record with a missing PaidDate.
C7_MissingDateHandling ==
  /\ (db # <<>> /\ K_invoices \in DOMAIN db) =>
       /\ Len(db[K_invoices]) = Len(RawInvoices)
       /\ \A i \in 1..Len(RawInvoices) :
            /\ RawInvoices[i].PaidDate = Unparseable
                 => IsNa(db[K_invoices][i].PaidDate)
            /\ RawInvoices[i].PaidDate # Unparseable
                 => db[K_invoices][i].PaidDate = RawInvoices[i].PaidDate
  /\ (\A i \in 1..Len(fs) : fs[i].ok) => err # "read_excel"
  /\ unpaid # None =>
       /\ \A k \in 1..Len(sales[1]) : Present(sales[1][k].InvoiceDate)
       /\ Len(sales[1]) = Cardinality(Dated2017)
       /\ Cardinality({k \in 1..Len(unpaid[1]) : IsNa(unpaid[1][k].PaidDate)})
            = Cardinality({k \in 1..Len(sales[1]) : IsNa(sales[1][k].PaidDate)})

\* One invoice has no InvoiceDate and is left out of sales; another has an
\* unparseable PaidDate and is in unpaid.
C7_Witness ==
  /\ unpaid # None
  /\ \E i, j \in 1..Len(RawInvoices) :
       /\ IsNa(RawInvoices[i].InvoiceDate)
       /\ RawInvoices[j].PaidDate = Unparseable
       /\ j \in Dated2017
  /\ Len(sales[1]) = 1
  /\ Len(unpaid[1]) = 1
  /\ IsNa(unpaid[1][1].PaidDate)

EmptyFinding == [count |-> 0, table |-> <<>>, shown |-> FALSE]

C9_ChecksArePure ==
  [][ /\ pc \in {"reconcile", "viz", "matching", "checking", "aging", "benford"}
         => db' = db /\ cache' = cache
      /\ pc \in {"viz", "matching", "checking", "aging", "benford"}
         => sales' = sales /\ unpaid' = unpaid /\ recon' = recon
      /\ pc # "matching" /\ pc' # "load" => matching' = matching
      /\ pc # "checking" /\ pc' # "load" => checking' = checking
      /\ pc # "aging" /\ pc' # "load" => aging' = aging
      /\ matching' # None
         => matching' = Some(Finding(Matching(Sales(cache'), cache'[K_shipments])))
      /\ checking' # None
         => checking' =
              Some(Finding(Checking(Unpaid(Sales(cache')), cache'[K_customers])))
      /\ aging' # None
         => aging' = Some(Finding(Aging(Unpaid(Sales(cache')))))
    ]_vars

\* A run that drew the per-territory chart with goal lines is over, with an
\* overdue unpaid invoice reported.
C9_Witness ==
  /\ pc = "done"
  /\ selected_viz = 2
  /\ fig[1].pivot # <<>>
  /\ aging[1].count > 0
  /\ Len(unpaid[1]) > 0

\* os.path.splitext: the name without its last suffix.
StripExt(name) == IF Len(name) > 1 THEN SubSeq(name, 1, Len(name) - 1) ELSE name

\* C10: after a successful load the keys of the Dataset are the entries' names
\* with the extension stripped, one table for each entry.
C10_KeysAreStems ==
  db # <<>> =>
    /\ DOMAIN db = {StripExt(fs[i].name) : i \in 1..Len(fs)}
    /\ Cardinality(DOMAIN db) = Len(fs)

====
